---- MODULE Spec2Model ----
(***************************************************************************)
(* FHIR uploader (src/app.py): main() checks the configuration, tests the  *)
(* connection, checks the input directory, uploads every *.json bundle of  *)
(* the directory in sorted order through a session with a retry policy,    *)
(* prints a summary and runs a verification search.                        *)
(*                                                                         *)
(* The program is sequential.  pc is main's position; the blocking points  *)
(* are the three HTTP calls, whose attempts are the steps of SendAttempt.  *)
(* A file's content is drawn when the loop reaches the file; both reads of *)
(* one iteration (the count and the upload) see the same content.  A       *)
(* response is local to the function that made the request: the request    *)
(* record is cleared when that function returns.                           *)
(***************************************************************************)
EXTENDS Integers, Sequences, FiniteSets

\* ------------------------------------------------------------------ bounds
MaxFiles == 2
MaxEntries == 2

\* ------------------------------------------------------- program constants
RetryTotal == 3
BackoffFactor == 1

\* A retry policy that also retries 400
status_forcelist_with_400 == {400, 429, 500, 502, 503, 504}

status_forcelist == {429, 500, 502, 503, 504}
allowed_methods == {"POST", "GET"}

\* ------------------------------------------------------------ input spaces
Names == 1..MaxFiles
EnvValues == {"unset", "empty", "set"}
DirEntries == {"absent", "txt", "json"}
Statuses == {200, 201, 400} \cup status_forcelist
\* A response body, by what json() and the callers make of it.
\* text that is no JSON, {}, a non-empty list, a non-empty object, and an
\* object whose 'software' is a string.
Bodies == {"notjson", "emptyobj", "array", "obj_full", "obj_badsoftware"}
\* An entry of a bundle: a resource of some type, or an entry without 'resource'.
EntryKinds == {"Patient", "Observation", "MedicationStatement", "Encounter", "NoResource"}

RECURSIVE SeqsUpTo(_, _)
SeqsUpTo(S, n) ==
  IF n = 0 THEN {<<>>}
  ELSE LET shorter == SeqsUpTo(S, n - 1)
       IN shorter \cup {Append(s, x) : s \in {t \in shorter : Len(t) = n - 1}, x \in S}

\* A file's content: open() fails, json.load fails, a JSON value that is not
\* an object, or an object whose 'entry' is a list of entries.
Contents ==
  {[kind |-> k, entry |-> <<>>] : k \in {"unreadable", "text", "array"}}
  \cup {[kind |-> "object", entry |-> e] : e \in SeqsUpTo(EntryKinds, MaxEntries)}

VARIABLES env, dirExists, dir, pc, req, connected, checks, sent,
          bundle_files, idx, stats, expected, processed, last, search_result, crash

vars == <<env, dirExists, dir, pc, req, connected, checks, sent,
          bundle_files, idx, stats, expected, processed, last, search_result, crash>>

\* ------------------------------------------------------------ Python values
Ret(v) == [tag |-> "return", val |-> v, exc |-> "none"]
Raise(e) == [tag |-> "raise", val |-> "none", exc |-> e]

\* response.json(): a body that is no JSON raises
Json(body) == IF body = "notjson" THEN Raise("ValueError") ELSE Ret(body)

\* bool(doc) of a parsed document or None
Truthy(doc) == doc \in {"array", "obj_full", "obj_badsoftware"}

\* doc.get(...) exists on objects only
IsObject(doc) == doc \in {"emptyobj", "obj_full", "obj_badsoftware"}

\* ----------------------------------------------------------- HTTP transport
NoOutcome == [kind |-> "none", status |-> 0, body |-> "notjson", exc |-> "none"]
Response(s, b) == [kind |-> "response", status |-> s, body |-> b, exc |-> "none"]
Failure(e) == [kind |-> "exception", status |-> 0, body |-> "notjson", exc |-> e]

\* The statuses whose body the caller of the request parses: 200 and 201 for
\* the upload (line 118), 200 for the two GETs (lines 84 and 249)
ParsedStatuses(method) == IF method = "POST" THEN {200, 201} ELSE {200}

\* What one attempt on the wire can bring: a transport failure or a response.
\* The body of a response nobody parses is one opaque text.
WireOutcomes(method) ==
  {Failure("ConnectionError")}
  \cup {Response(s, b) : s \in ParsedStatuses(method), b \in Bodies}
  \cup {Response(s, "notjson") : s \in Statuses \ ParsedStatuses(method)}

IdleRequest ==
  [method |-> "none", target |-> "none", state |-> "idle", attempts |-> 0,
   backoff |-> 0, sawRetryStatus |-> FALSE, last |-> 0, out |-> NoOutcome]

NewRequest(method, target) ==
  [IdleRequest EXCEPT !.method = method, !.target = target, !.state = "inflight"]

RECURSIVE Pow2(_)
Pow2(n) == IF n = 0 THEN 1 ELSE 2 * Pow2(n - 1)

\* Retry.get_backoff_time with n consecutive failures so far
BackoffTime(n) == IF n <= 1 THEN 0 ELSE BackoffFactor * Pow2(n - 1)

\* Retry.is_retry / transport errors, for the configured policy
is_retry(method, o) ==
  /\ method \in allowed_methods
  /\ \/ o.kind = "exception"
     \/ o.kind = "response" /\ o.status \in status_forcelist

\* One attempt of the adapter: retry with backoff while the budget lasts,
\* else raise (retries exhausted) or hand the response to the caller.
Transport(r, o) ==
  LET n == r.attempts + 1
      seen == [r EXCEPT !.attempts = n,
                        !.last = o.status]
  IN IF is_retry(r.method, o)
     THEN IF RetryTotal - r.attempts > 0
          THEN [seen EXCEPT !.backoff = r.backoff + BackoffTime(n),
                            !.sawRetryStatus = r.sawRetryStatus \/ o.kind = "response"]
          ELSE [seen EXCEPT !.state = "done",
                            !.out = IF o.kind = "response"
                                    THEN Failure("RetryError")
                                    ELSE Failure("ConnectionError")]
     ELSE [seen EXCEPT !.state = "done", !.out = o]

\* ------------------------------------------------------------------- main
\* any(...) in place of all(...)
ConfigAny(e) == \E k \in DOMAIN e : e[k] = "set"

\* all([hostname, client_id, client_secret])
ConfigOk(e) == \A k \in DOMAIN e : e[k] = "set"

\* except requests.RequestException in place of except Exception
CaughtRequestsOnly(exc) == exc \in {"ConnectionError", "RetryError"}

\* except Exception: every exception the body can raise is caught
Caught(exc) == exc \in {"ConnectionError", "RetryError", "ValueError", "AttributeError", "KeyError"}

\* The loop's current file: none before the loop and after it
NoFile == [name |-> 0, kind |-> "none", posts |-> 0, result |-> "none"]

Init ==
  /\ env \in [{"HTTP_HOSTNAME", "HTTP_CLIENT_ID", "HTTP_CLIENT_SECRET"} -> EnvValues]
  /\ dirExists \in BOOLEAN
  /\ dir \in [Names -> DirEntries]
  /\ pc = "start"
  /\ req = IdleRequest
  /\ connected = "unknown"
  /\ checks = <<>>
  /\ sent = {}
  /\ bundle_files = <<>>
  /\ idx = 0
  /\ stats = [total |-> 0, successful |-> 0, failed |-> 0,
              patients |-> 0, observations |-> 0, medications |-> 0]
  /\ expected = [patients |-> 0, observations |-> 0, medications |-> 0]
  /\ processed = <<>>
  /\ last = NoFile
  /\ search_result = "unset"
  /\ crash = "none"

\* main, lines 264-291: the configuration check, then the metadata GET
MainStart ==
  /\ pc = "start"
  /\ IF ConfigOk(env)
     THEN /\ pc' = "test_connection"
          /\ checks' = Append(checks, "config_ok")
          /\ req' = NewRequest("GET", "metadata")
          /\ sent' = sent \cup {"metadata"}
     ELSE /\ pc' = "returned"
          /\ UNCHANGED <<checks, req, sent>>
  /\ UNCHANGED <<env, dirExists, dir, connected, bundle_files, idx, stats,
                 expected, processed, last, search_result, crash>>

\* session.get / session.post: one attempt of the request in flight
SendAttempt ==
  /\ req.state = "inflight"
  /\ \E o \in WireOutcomes(req.method) : req' = Transport(req, o)
  /\ UNCHANGED <<env, dirExists, dir, pc, connected, checks, sent, bundle_files,
                 idx, stats, expected, processed, last, search_result, crash>>

\* test_connection's try body, lines 78-93
TestConnectionBody(out) ==
  IF out.kind = "exception" THEN Raise(out.exc)
  ELSE IF out.status = 200
       THEN LET metadata == Json(out.body)
            IN IF metadata.tag = "raise" THEN metadata
               ELSE IF ~IsObject(metadata.val) THEN Raise("AttributeError")
               ELSE IF metadata.val = "obj_badsoftware" THEN Raise("AttributeError")
               ELSE Ret(TRUE)
       ELSE Ret(FALSE)

\* test_connection, lines 77-97: the body under its except clause
test_connection(out) ==
  LET r == TestConnectionBody(out)
  IN IF r.tag = "raise" /\ Caught(r.exc) THEN Ret(FALSE) ELSE r

\* test_connection returns to main, lines 84-97 and 291-296
TestConnectionReturn ==
  /\ pc = "test_connection"
  /\ req.state = "done"
  /\ LET r == test_connection(req.out)
     IN IF r.tag = "raise"
        THEN /\ connected' = "raised"
             /\ crash' = r.exc
             /\ pc' = "crashed"
             /\ UNCHANGED checks
        ELSE IF r.val
        THEN /\ connected' = "true"
             /\ checks' = Append(checks, "connected")
             /\ pc' = "check_dir"
             /\ UNCHANGED crash
        ELSE /\ connected' = "false"
             /\ pc' = "returned"
             /\ UNCHANGED <<checks, crash>>
  /\ req' = IdleRequest
  /\ UNCHANGED <<env, dirExists, dir, sent, bundle_files, idx, stats, expected,
                 processed, last, search_result>>

\* main, lines 299-304: input_dir.exists()
MainCheckDir ==
  /\ pc = "check_dir"
  /\ IF dirExists
     THEN /\ pc' = "scan"
          /\ checks' = Append(checks, "dir_ok")
     ELSE /\ pc' = "returned"
          /\ UNCHANGED checks
  /\ UNCHANGED <<env, dirExists, dir, req, connected, sent, bundle_files, idx,
                 stats, expected, processed, last, search_result, crash>>

\* ------------------------------------------------------- upload_directory
JsonNames == {n \in Names : dir[n] = "json"}

\* The orders directory.glob("*.json") may list the matching files in
Perms(S) ==
  {f \in [1..Cardinality(S) -> S] : \A i, j \in 1..Cardinality(S) : i # j => f[i] # f[j]}

RECURSIVE Insert(_, _)
Insert(x, s) ==
  IF s = <<>> THEN <<x>>
  ELSE IF x <= Head(s) THEN <<x>> \o s
  ELSE <<Head(s)>> \o Insert(x, Tail(s))

RECURSIVE SortSeq(_)
SortSeq(s) == IF s = <<>> THEN <<>> ELSE Insert(Head(s), SortSeq(Tail(s)))

\* The glob order kept as it is
unsorted(s) == s

\* sorted(list(...)), line 166
sorted(s) == SortSeq(s)

\* lines 166-179: scan, sort, fresh stats
Scan ==
  /\ pc = "scan"
  /\ \E globbed \in Perms(JsonNames) :
       /\ bundle_files' = sorted(globbed)
       /\ stats' = [total |-> Len(globbed), successful |-> 0, failed |-> 0,
                    patients |-> 0, observations |-> 0, medications |-> 0]
  /\ idx' = 1
  /\ pc' = "loop"
  /\ UNCHANGED <<env, dirExists, dir, req, connected, checks, sent, expected,
                 processed, last, search_result, crash>>

\* lines 191-196: one entry's resourceType
Bump(st, type) ==
  IF type = "Patient" THEN [st EXCEPT !.patients = @ + 1]
  ELSE IF type = "Observation" THEN [st EXCEPT !.observations = @ + 1]
  ELSE IF type = "MedicationStatement" THEN [st EXCEPT !.medications = @ + 1]
  ELSE st

\* lines 189-198: the loop over the entries; entry['resource'] of an entry
\* without 'resource' raises, which ends the loop under the bare except
RECURSIVE CountEntries(_, _)
CountEntries(st, entries) ==
  IF entries = <<>> THEN st
  ELSE IF Head(entries) = "NoResource" THEN st
  ELSE CountEntries(Bump(st, Head(entries)), Tail(entries))

\* lines 185-198: open, json.load, count; any failure is passed over
CountResources(st, content) ==
  IF content.kind = "object" THEN CountEntries(st, content.entry) ELSE st

\* lines 141-142: open and json.load succeed
CanLoad(content) == content.kind \in {"array", "object"}

\* A failure that is not counted
ClassifyDropFailed(st, success) ==
  IF success THEN [st EXCEPT !.successful = @ + 1] ELSE st

\* lines 203-208
Classify(st, success) ==
  IF success THEN [st EXCEPT !.successful = @ + 1] ELSE [st EXCEPT !.failed = @ + 1]

\* The entries of a file's content that carry the resource type
TrueCount(content, type) ==
  Cardinality({i \in 1..Len(content.entry) : content.entry[i] = type})

\* upload_bundle's try body, lines 111-123
UploadBundleBody(out) ==
  IF out.kind = "exception" THEN Raise(out.exc)
  ELSE IF out.status \in {200, 201} THEN Json(out.body)
  ELSE Ret("None")

\* upload_bundle, lines 110-127
upload_bundle(out) ==
  LET r == UploadBundleBody(out)
  IN IF r.tag = "raise" /\ Caught(r.exc) THEN Ret("None") ELSE r

\* upload_bundle_file after the POST, lines 144-153
upload_bundle_file(out) ==
  LET result == upload_bundle(out)
  IN IF result.tag = "raise"
     THEN IF Caught(result.exc) THEN Ret(FALSE) ELSE result
     ELSE Ret(Truthy(result.val))

\* One iteration up to the POST: lines 181-201, 140-144 and 111.  A file that
\* cannot be loaded ends its iteration here, counted as failed (lines 151-153,
\* 206-215).
ProcessFile ==
  /\ pc = "loop"
  /\ idx <= Len(bundle_files)
  /\ \E content \in Contents :
       LET file_path == bundle_files[idx]
           counted == CountResources(stats, content)
       IN /\ expected' = [patients |-> expected.patients + TrueCount(content, "Patient"),
                          observations |-> expected.observations + TrueCount(content, "Observation"),
                          medications |-> expected.medications + TrueCount(content, "MedicationStatement")]
          /\ processed' = Append(processed, file_path)
          /\ IF CanLoad(content)
             THEN /\ stats' = counted
                  /\ req' = NewRequest("POST", "base")
                  /\ sent' = sent \cup {"post"}
                  /\ last' = [name |-> file_path, kind |-> content.kind, posts |-> 1,
                              result |-> "pending"]
                  /\ pc' = "post"
                  /\ UNCHANGED idx
             ELSE /\ stats' = Classify(counted, FALSE)
                  /\ last' = [name |-> file_path, kind |-> content.kind, posts |-> 0,
                              result |-> "failed"]
                  /\ idx' = idx + 1
                  /\ UNCHANGED <<req, sent, pc>>
  /\ UNCHANGED <<env, dirExists, dir, connected, checks, bundle_files,
                 search_result, crash>>

\* The POST is over: lines 118-127, 146-153 and 203-215
UploadReturn ==
  /\ pc = "post"
  /\ req.state = "done"
  /\ LET success == upload_bundle_file(req.out)
     IN IF success.tag = "raise"
        THEN /\ crash' = success.exc
             /\ pc' = "crashed"
             /\ UNCHANGED <<stats, last, idx>>
        ELSE /\ stats' = Classify(stats, success.val)
             /\ last' = [last EXCEPT !.result = IF success.val THEN "success" ELSE "failed"]
             /\ idx' = idx + 1
             /\ pc' = "loop"
             /\ UNCHANGED crash
  /\ req' = IdleRequest
  /\ UNCHANGED <<env, dirExists, dir, connected, checks, sent, bundle_files,
                 expected, processed, search_result>>

\* line 221: the success percentage
SuccessPercent(st) ==
  IF st.total = 0 THEN Raise("ZeroDivisionError")
  ELSE Ret((st.successful * 100) \div st.total)

\* The loop is over: the summary, lines 217-228, then main's lines 307-311
Summary ==
  /\ pc = "loop"
  /\ idx > Len(bundle_files)
  /\ IF SuccessPercent(stats).tag = "raise"
     THEN /\ crash' = SuccessPercent(stats).exc
          /\ pc' = "crashed"
          /\ UNCHANGED <<req, sent>>
     ELSE /\ pc' = "search"
          /\ req' = NewRequest("GET", "Patient")
          /\ sent' = sent \cup {"search"}
          /\ UNCHANGED crash
  /\ last' = NoFile
  /\ UNCHANGED <<env, dirExists, dir, connected, checks, bundle_files, idx,
                 stats, expected, processed, search_result>>

\* ---------------------------------------------------------- search_patients
\* search_patients' try body, lines 242-253
SearchPatientsBody(out) ==
  IF out.kind = "exception" THEN Raise(out.exc)
  ELSE IF out.status = 200 THEN Json(out.body)
  ELSE Ret("None")

\* search_patients, lines 241-257
search_patients(out) ==
  LET r == SearchPatientsBody(out)
  IN IF r.tag = "raise" /\ Caught(r.exc) THEN Ret("None") ELSE r

\* main, lines 312-314: search_result.get('total', 0) of a truthy result
MainVerify(doc) ==
  IF Truthy(doc) /\ ~IsObject(doc) THEN Raise("AttributeError") ELSE Ret(doc)

\* search_patients returns to main, lines 249-257 and 311-314
SearchReturn ==
  /\ pc = "search"
  /\ req.state = "done"
  /\ LET r == search_patients(req.out)
     IN IF r.tag = "raise"
        THEN /\ crash' = r.exc
             /\ pc' = "crashed"
             /\ search_result' = "raised"
        ELSE /\ search_result' = r.val
             /\ IF MainVerify(r.val).tag = "raise"
                THEN /\ crash' = MainVerify(r.val).exc
                     /\ pc' = "crashed"
                ELSE /\ pc' = "done"
                     /\ UNCHANGED crash
  /\ req' = IdleRequest
  /\ UNCHANGED <<env, dirExists, dir, connected, checks, sent, bundle_files,
                 idx, stats, expected, processed, last>>

Next ==
  \/ MainStart
  \/ SendAttempt
  \/ TestConnectionReturn
  \/ MainCheckDir
  \/ Scan
  \/ ProcessFile
  \/ UploadReturn
  \/ Summary
  \/ SearchReturn

Spec == Init /\ [][Next]_vars

\* ------------------------------------------------------------------ claims
\* upload_directory has returned its stats to main
Returned == pc \in {"search", "done"} \/ (pc = "crashed" /\ crash = "AttributeError")

\* The loop has visited every file, whatever came after
LoopOver == (pc = "loop" /\ idx > Len(bundle_files)) \/ pc \in {"search", "done", "crashed"}

ForcedStatuses == {429, 500, 502, 503, 504}

\* C1: the returned stats satisfy total = successful + failed, and that sum is
\* the number of *.json files of the directory.
C1_StatsAddUp ==
  Returned =>
    /\ stats.total = stats.successful + stats.failed
    /\ stats.successful + stats.failed = Cardinality(JsonNames)

C1_Witness == pc = "done" /\ stats.successful = 1 /\ stats.failed = 1

\* C2: after upload_directory each resource counter is the number of entries
\* of that resource type over all scanned files, entries that follow a
\* malformed entry included.
C2_CountersMatchEntries ==
  Returned =>
    /\ stats.patients = expected.patients
    /\ stats.observations = expected.observations
    /\ stats.medications = expected.medications

\* C3: a loaded bundle is counted as successful exactly when the final
\* response to its POST has status 200 or 201, whatever the body.
C3_SuccessIffStatus ==
  [][(pc = "post" /\ pc' = "loop") =>
       ((last'.result = "success")
          <=> (req.out.kind = "response" /\ req.out.status \in {200, 201}))]_vars

\* C4: every scanned file is processed exactly once in ascending order; a
\* file that cannot be opened or parsed is counted as failed once, without a
\* POST, and the loop goes on to the end.
C4_State ==
  /\ \A i \in 1..Len(processed) :
       /\ processed[i] \in JsonNames
       /\ Cardinality({n \in JsonNames : n < processed[i]}) = i - 1
  /\ stats.successful + stats.failed = Len(processed) - (IF pc = "post" THEN 1 ELSE 0)
  /\ last.kind \in {"unreadable", "text"} => last.result = "failed" /\ last.posts = 0
  /\ LoopOver => Len(processed) = Cardinality(JsonNames)
  /\ pc = "crashed" => crash \in {"ZeroDivisionError", "AttributeError"}

C4_Step ==
  (Len(processed') = Len(processed) + 1 /\ last'.kind \in {"unreadable", "text"}) =>
    /\ stats'.failed = stats.failed + 1
    /\ stats'.successful = stats.successful
    /\ req' = req
    /\ idx' = idx + 1
    /\ pc' = "loop"

\* C4: a bad file never halts the batch: C4_State in every state, C4_Step at
\* every step that visits a file which cannot be opened or parsed.
C4_BadFileNeverHalts == []C4_State /\ [][C4_Step]_vars

\* The first of two files is not valid JSON: it is counted as failed, nothing
\* was posted, and the loop stands at the second file.
C4_Witness ==
  /\ pc = "loop"
  /\ Len(bundle_files) = 2 /\ idx = 2
  /\ last.name = 1 /\ last.kind = "text" /\ last.result = "failed"
  /\ stats.failed = 1
  /\ "post" \notin sent

\* C5: with no *.json file the summary is produced without a division by
\* zero and the run goes on with total = successful = failed = 0.
C5_EmptyDirectorySummary ==
  (JsonNames = {} /\ LoopOver /\ pc # "loop") =>
    /\ crash # "ZeroDivisionError"
    /\ stats.total = 0 /\ stats.successful = 0 /\ stats.failed = 0

\* C6: a missing variable means no request at all; a failed connection test
\* or a missing directory means no POST and no search; a POST comes only after
\* the three checks, in their order.
C6_FatalConditionsGate ==
  /\ (\E k \in DOMAIN env : env[k] = "unset") => (sent = {} /\ req.attempts = 0)
  /\ (connected \in {"false", "raised"} \/ ~dirExists) => sent \cap {"post", "search"} = {}
  /\ "post" \in sent => checks = <<"config_ok", "connected", "dir_ok">>
  /\ "search" \in sent => checks = <<"config_ok", "connected", "dir_ok">>
  /\ req.state # "idle" => sent # {}

C6_Witness == pc = "returned" /\ connected = "true" /\ ~dirExists /\ sent = {"metadata"}

\* C7: a POST whose earlier attempts met retryable statuses and whose later
\* attempt met 200 or 201 counts its file as successful; no request takes more
\* than 4 attempts.
C7_RetryTransparency ==
  /\ [](req.attempts <= 4)
  /\ [][(pc = "post" /\ pc' = "loop" /\ req.sawRetryStatus
          /\ req.out.kind = "response" /\ req.out.status \in {200, 201})
        => (last'.result = "success" /\ stats'.successful = stats.successful + 1)]_vars

\* C8: a response with a status that is neither retryable nor 200/201 ends the
\* request at once, with no further attempt and no backoff, and the upload
\* comes back as a failure.
C8_State ==
  /\ req.state = "inflight" => req.last \in {0} \cup ForcedStatuses
  /\ (req.state = "done" /\ req.attempts = 1) => req.backoff = 0

C8_Step ==
  /\ (req.state = "inflight" /\ req'.attempts = req.attempts + 1
        /\ req'.last \notin {0} \cup ForcedStatuses) =>
       /\ req'.state = "done"
       /\ req'.backoff = req.backoff
       /\ req'.out.kind = "response" /\ req'.out.status = req'.last
  /\ (pc = "post" /\ pc' # pc /\ req.out.kind = "response"
        /\ req.out.status \notin {200, 201}) =>
       /\ pc' = "loop"
       /\ last'.result = "failed"
       /\ stats'.failed = stats.failed + 1

C9_State ==
  /\ connected # "raised"
  /\ search_result # "raised"
  /\ req.attempts <= RetryTotal + 1

C9_Step ==
  /\ (pc = "test_connection" /\ pc' # pc) =>
       /\ connected' \in {"true", "false"}
       /\ req.out.kind = "exception" => connected' = "false"
  /\ (pc = "search" /\ pc' # pc) => search_result' \in Bodies \cup {"None"}

\* C9: test_connection and search_patients never raise: C9_State in every
\* state, C9_Step at every return of the two functions.
C9_NeverRaise == []C9_State /\ [][C9_Step]_vars

C9_Witness ==
  /\ pc = "test_connection" /\ req.state = "done"
  /\ req.out.kind = "exception" /\ req.out.exc = "ConnectionError"
  /\ req.attempts = RetryTotal + 1

\* C10: test_connection returns true exactly when the final response to the
\* metadata GET has status 200, whatever the body holds.
C10_TrueIffStatus200 ==
  [][(pc = "test_connection" /\ pc' # pc) =>
       ((connected' = "true")
          <=> (req.out.kind = "response" /\ req.out.status = 200))]_vars
====
